---- MODULE Spec2Model ----
(***************************************************************************)
(* State-machine model of the CTF scoring backend (src/main.py,            *)
(* src/schemas.py).  The document store is modelled as three collections   *)
(* kept in insertion order; strings that the code parses or normalises     *)
(* (object ids, flags) are sequences of one-character strings so that      *)
(* ObjectId(), str() and strip() are computed, not assumed.                *)
(***************************************************************************)
EXTENDS Integers, Sequences, FiniteSets, TLC

(* ------------------------------------------------------------------ *)
(* Bounds of the model                                                 *)
(* ------------------------------------------------------------------ *)
MaxUsers == 2
MaxSubs == 2

(* The two request workers whose store operations are interleaved.     *)
Procs == {"w1", "w2"}

(* ------------------------------------------------------------------ *)
(* Object ids: bson.ObjectId and its string rendering                  *)
(* ------------------------------------------------------------------ *)
OidLen == 24

HexLower == <<"0","1","2","3","4","5","6","7","8","9","a","b","c","d","e","f">>
HexUpper == <<"0","1","2","3","4","5","6","7","8","9","A","B","C","D","E","F">>

HexDigits == {HexLower[i] : i \in 1..16} \cup {HexUpper[i] : i \in 1..16}

(* the value of each hexadecimal digit, either case *)
HexTable ==
    [c \in HexDigits |->
        (CHOOSE i \in 1..16 : HexLower[i] = c \/ HexUpper[i] = c) - 1]

(* value of one hexadecimal digit; -1 when not a digit *)
HexVal(c) == IF c \in HexDigits THEN HexTable[c] ELSE -1

(* ObjectId(s) raises InvalidId unless s is 24 hexadecimal digits *)
IsValidOid(s) == Len(s) = OidLen /\ \A i \in 1..Len(s) : HexVal(s[i]) >= 0

(* ObjectId(s) for a valid s: the 12 bytes, kept as 24 nibbles *)
ObjectId(s) == [i \in 1..OidLen |-> HexVal(s[i])]

(* str(ObjectId): lower-case hexadecimal *)
StrOid(o) == [i \in 1..OidLen |-> HexLower[o[i] + 1]]

(* str(obj) of a value that already is a str *)
str(s) == s

(* oid(obj) = ObjectId(str(obj)); defined when IsValidOid(str(obj)) *)
oid(obj) == ObjectId(str(obj))

(* the same text with its hexadecimal letters in upper case *)
UpperHex(s) == [i \in 1..Len(s) |-> IF HexVal(s[i]) >= 0 THEN HexUpper[HexVal(s[i]) + 1] ELSE s[i]]

(* Ids the store hands out on insert: fresh per collection.  The first  *)
(* nibble tags the collection, the last one counts the insertions.      *)
UserTag == 10
ChallengeTag == 11
SubmissionTag == 12
NewObjectId(tag, n) ==
    [i \in 1..OidLen |-> IF i = 1 THEN tag ELSE IF i = OidLen THEN n % 16 ELSE 0]

(* ------------------------------------------------------------------ *)
(* Flags and str.strip()                                               *)
(* ------------------------------------------------------------------ *)
Whitespace == {" ", "\t", "\n", "\r", "\f"}

RECURSIVE lstrip(_)
lstrip(s) == IF s # <<>> /\ Head(s) \in Whitespace THEN lstrip(Tail(s)) ELSE s

RECURSIVE rstrip(_)
rstrip(s) ==
    IF s # <<>> /\ s[Len(s)] \in Whitespace THEN rstrip(SubSeq(s, 1, Len(s) - 1)) ELSE s

strip(s) == rstrip(lstrip(s))

(* str.upper() on the letters the flags use *)
AsciiLower == <<"a","b","c","d","e","f","g","h","i","j","k","l","m",
                "n","o","p","q","r","s","t","u","v","w","x","y","z">>
AsciiUpper == <<"A","B","C","D","E","F","G","H","I","J","K","L","M",
                "N","O","P","Q","R","S","T","U","V","W","X","Y","Z">>
upper(s) ==
    [i \in 1..Len(s) |->
        IF \E k \in 1..26 : AsciiLower[k] = s[i]
        THEN AsciiUpper[CHOOSE k \in 1..26 : AsciiLower[k] = s[i]]
        ELSE s[i]]

FlagHello == <<"C","T","F","{","h","e","l","l","o","_","w","o","r","l","d","}">>
FlagCaesar == <<"C","T","F","{","c","a","e","s","a","r","_","3","_","s","h","i","f","t","}">>
FlagCookie == <<"C","T","F","{","c","o","o","k","i","e","_","f","i","n","d","e","r","}">>

(* the demo challenges of seed_challenges, as Challenge(...).model_dump() *)
demos == <<
    [title |-> "Warmup: Hello Flag", category |-> "Misc", difficulty |-> "Easy",
     points |-> 50, description |-> "hello", flag |-> FlagHello],
    [title |-> "Crypto: Caesar Shift", category |-> "Crypto", difficulty |-> "Easy",
     points |-> 100, description |-> "caesar", flag |-> FlagCaesar],
    [title |-> "Web: Cookie Monster", category |-> "Web", difficulty |-> "Medium",
     points |-> 200, description |-> "cookie", flag |-> FlagCookie] >>

(* ------------------------------------------------------------------ *)
(* Request inputs                                                      *)
(* ------------------------------------------------------------------ *)
Usernames == {"alice"}
Emails == {"a@ctf.io", "A@ctf.io"}
Passwords == {"pw1"}

UserIdStr(k) == StrOid(NewObjectId(UserTag, k))
ChallengeIdStr(k) == StrOid(NewObjectId(ChallengeTag, k))

(* not 24 characters long: ObjectId raises InvalidId *)
MalformedId == <<"x", "y", "z">>

(* a well-formed id that names no user: the id of a challenge *)
UserIdInputs == {UserIdStr(1), UpperHex(UserIdStr(1))}
BadUserIds == {MalformedId, ChallengeIdStr(1)}

ChallengeIdInputs == {ChallengeIdStr(1), UpperHex(ChallengeIdStr(1))}
BadChallengeIds == {MalformedId, UserIdStr(1)}

(* the first demo flag: exact, padded, in another case, with a blank inside *)
PaddedHello == <<" ">> \o FlagHello \o <<"\n">>
LowerHello == <<"c", "t", "f">> \o SubSeq(FlagHello, 4, Len(FlagHello))
SplitHello == SubSeq(FlagHello, 1, 9) \o <<" ">> \o SubSeq(FlagHello, 10, Len(FlagHello))
FlagInputs == {FlagHello, PaddedHello, LowerHello, SplitHello}

RegisterRequest == [username : Usernames, email : Emails, password : Passwords]

(* the ids asked of get_challenge *)
GetChallengeRequest ==
    [challenge_id : ChallengeIdInputs \cup BadChallengeIds]

(* stats: the limit query parameter; 0 asks the store for no limit *)
Limits == {0, 1, 2}
StatsRequest == [limit : Limits]

(* login also tries a password nobody registered with in RegisterRequest *)
LoginPasswords == Passwords \cup {"pw2"}
LoginRequest == [email : Emails, password : LoginPasswords]

SubmitFlagRequest ==
    [user_id : {UserIdStr(1)}, challenge_id : {ChallengeIdStr(1)}, flag : FlagInputs]
    \cup [user_id : UserIdInputs, challenge_id : ChallengeIdInputs, flag : {FlagHello}]
    \cup [user_id : {UserIdStr(1)}, challenge_id : {ChallengeIdStr(2)}, flag : {FlagCaesar, FlagHello}]
    \cup [user_id : BadUserIds, challenge_id : {ChallengeIdStr(1)}, flag : {FlagHello}]
    \cup [user_id : {UserIdStr(1)}, challenge_id : BadChallengeIds, flag : {FlagHello}]

(* ------------------------------------------------------------------ *)
(* State                                                               *)
(* ------------------------------------------------------------------ *)
VARIABLES
    db,          \* TRUE when the store handle is configured, FALSE when it is None
    up,          \* the startup event has run
    ctfuser,     \* collection "ctfuser", in insertion order
    challenge,   \* collection "challenge", in insertion order
    submission,  \* collection "submission", in insertion order
    resp,        \* the last response sent
    pc,          \* per worker: the store operation it executes next
    rq,          \* per worker: the request it is handling
    loc          \* per worker: the handler's local variables

vars == <<db, up, ctfuser, challenge, submission, resp, pc, rq, loc>>
store == <<ctfuser, challenge, submission>>
workers == <<pc, rq, loc>>

(* ------------------------------------------------------------------ *)
(* The document store                                                  *)
(* ------------------------------------------------------------------ *)
(* find_one({"_id": o}): <<>> for None, <<doc>> for the first match *)
find_one_by_id(coll, o) ==
    IF \E i \in 1..Len(coll) : coll[i]._id = o
    THEN <<coll[CHOOSE i \in 1..Len(coll) :
                  coll[i]._id = o /\ \A j \in 1..(i - 1) : coll[j]._id # o]>>
    ELSE <<>>

(* the lookup on the wrong field *)
find_one_by_username(coll, e) ==
    IF \E i \in 1..Len(coll) : coll[i].username = e
    THEN <<coll[CHOOSE i \in 1..Len(coll) : coll[i].username = e]>>
    ELSE <<>>

(* find_one({"email": e}) *)
find_one_by_email(coll, e) ==
    IF \E i \in 1..Len(coll) : coll[i].email = e
    THEN <<coll[CHOOSE i \in 1..Len(coll) :
                  coll[i].email = e /\ \A j \in 1..(i - 1) : coll[j].email # e]>>
    ELSE <<>>

(* $push in place of $addToSet *)
push(arr, v) == Append(arr, v)

(* $addToSet on an array field *)
addToSet(arr, v) == IF \E i \in 1..Len(arr) : arr[i] = v THEN arr ELSE Append(arr, v)

(* the update without its $inc *)
update_one_no_inc(coll, o, n, s) ==
    [k \in 1..Len(coll) |->
        IF coll[k]._id = o THEN [coll[k] EXCEPT !.solved = addToSet(@, s)] ELSE coll[k]]

(* the update without its filter: every document is updated *)
update_one_score_all(coll, o, n, s) ==
    [k \in 1..Len(coll) |-> [coll[k] EXCEPT !.score = @ + n, !.solved = addToSet(@, s)]]

(* update_one({"_id": o}, {"$inc": {"score": n}, "$addToSet": {"solved": s}}) *)
update_one_score(coll, o, n, s) ==
    IF \E i \in 1..Len(coll) : coll[i]._id = o
    THEN LET k == CHOOSE i \in 1..Len(coll) :
                      coll[i]._id = o /\ \A j \in 1..(i - 1) : coll[j]._id # o
         IN [coll EXCEPT ![k] = [@ EXCEPT !.score = @ + n, !.solved = addToSet(@, s)]]
    ELSE coll

(* create_document(name, data): insert_one of the dumped model; returns *)
(* the collection after the insert and str(inserted_id)                 *)
create_document(coll, tag, data) ==
    LET id == NewObjectId(tag, Len(coll) + 1)
    IN [coll |-> Append(coll, [_id |-> id] @@ data), id |-> StrOid(id)]

(* to_str_id(doc) *)
to_str_id(doc) == [doc EXCEPT !._id = StrOid(@)]

(* the models of schemas.py *)
Ctfuser(username, email, password) ==
    [username |-> username, email |-> email, password |-> password,
     score |-> 0, solved |-> <<>>]

Submission(user_id, challenge_id, flag, correct) ==
    [user_id |-> user_id, challenge_id |-> challenge_id, flag |-> flag, correct |-> correct]

(* ------------------------------------------------------------------ *)
(* Responses                                                           *)
(* ------------------------------------------------------------------ *)
NoRequest == [op |-> "none"]
NoResp == [op |-> "none", req |-> NoRequest, status |-> 0]
HTTPException(op, req, status, detail) ==
    [op |-> op, req |-> req, status |-> status, detail |-> detail]
Ok(op, req, body) == [op |-> op, req |-> req, status |-> 200, body |-> body]
(* an exception no handler catches: the framework answers 500 *)
Unhandled(op, req) == HTTPException(op, req, 500, "Internal Server Error")
NotConfigured(op, req) == HTTPException(op, req, 500, "Database not configured")

NoLocals == [user |-> <<>>, ch |-> <<>>, already |-> FALSE, correct |-> FALSE,
             existing |-> <<>>, uid |-> <<>>]
Idle == [p \in Procs |-> "idle"]
NoReq == [p \in Procs |-> NoRequest]
NoLoc == [p \in Procs |-> NoLocals]

Init ==
    /\ db \in BOOLEAN
    /\ up = FALSE
    /\ ctfuser = <<>>
    /\ challenge = <<>>
    /\ submission = <<>>
    /\ resp = NoResp
    /\ pc = Idle
    /\ rq = NoReq
    /\ loc = NoLoc

(* ------------------------------------------------------------------ *)
(* Startup: seed_challenges                                            *)
(* ------------------------------------------------------------------ *)
RECURSIVE seed_all(_, _)
seed_all(coll, ds) ==
    IF ds = <<>> THEN coll
    ELSE seed_all(create_document(coll, ChallengeTag, Head(ds)).coll, Tail(ds))

(* the seeding without the test of the count *)
seed_challenges_always ==
    /\ \A p \in Procs : pc[p] = "idle"
    /\ up' = TRUE
    /\ challenge' = IF db THEN seed_all(challenge, demos) ELSE challenge
    /\ UNCHANGED <<db, ctfuser, submission, resp, workers>>

seed_challenges ==
    /\ \A p \in Procs : pc[p] = "idle"
    /\ up' = TRUE
    /\ challenge' = IF db /\ Len(challenge) = 0 THEN seed_all(challenge, demos) ELSE challenge
    /\ UNCHANGED <<db, ctfuser, submission, resp, workers>>

(* ------------------------------------------------------------------ *)
(* register                                                            *)
(* ------------------------------------------------------------------ *)
register_result(users, req) ==
    IF ~db THEN [users |-> users, resp |-> NotConfigured("register", req)]
    ELSE LET existing == find_one_by_email(users, req.email)
         IN IF existing # <<>>
            THEN [users |-> users,
                  resp |-> HTTPException("register", req, 400, "Email already registered")]
            ELSE LET user == Ctfuser(req.username, req.email, req.password)
                     ins == create_document(users, UserTag, user)
                     doc == find_one_by_id(ins.coll, ObjectId(ins.id))
                 IN [users |-> ins.coll,
                     resp |-> Ok("register", req, [user |-> to_str_id(doc[1])])]

register(req) ==
    /\ up
    /\ \A p \in Procs : pc[p] = "idle"
    /\ LET r == register_result(ctfuser, req)
       IN /\ Len(r.users) <= MaxUsers
          /\ ctfuser' = r.users
          /\ resp' = r.resp
    /\ UNCHANGED <<db, up, challenge, submission, workers>>

(* ------------------------------------------------------------------ *)
(* login: one store operation                                          *)
(* ------------------------------------------------------------------ *)
login_result(users, req) ==
    IF ~db THEN NotConfigured("login", req)
    ELSE LET user == find_one_by_email(users, req.email)
         IN IF user = <<>> \/ user[1].password # req.password
            THEN HTTPException("login", req, 401, "Invalid credentials")
            ELSE Ok("login", req, [user |-> to_str_id(user[1])])

login(req) ==
    /\ up
    /\ resp' = login_result(ctfuser, req)
    /\ UNCHANGED <<db, up, store, workers>>

(* ------------------------------------------------------------------ *)
(* list_challenges and get_challenge                                   *)
(* ------------------------------------------------------------------ *)
(* a projection {field: 0}: the document without that field *)
without(doc, field) == [f \in DOMAIN doc \ {field} |-> doc[f]]

(* the projection forgotten *)
keep_flag(doc) == doc

(* the projection {"flag": 0} of lines 130 and 138 *)
hide_flag(doc) == without(doc, "flag")

list_challenges_result(chs) ==
    IF ~db THEN NotConfigured("list_challenges", NoRequest)
    ELSE Ok("list_challenges", NoRequest,
            [challenges |-> [i \in 1..Len(chs) |-> to_str_id(hide_flag(chs[i]))]])

list_challenges ==
    /\ up
    /\ resp' = list_challenges_result(challenge)
    /\ UNCHANGED <<db, up, store, workers>>

get_challenge_result(chs, req) ==
    IF ~db THEN NotConfigured("get_challenge", req)
    ELSE IF ~IsValidOid(str(req.challenge_id)) THEN Unhandled("get_challenge", req)
    ELSE LET found == find_one_by_id(chs, oid(req.challenge_id))
         IN IF found = <<>>
            THEN HTTPException("get_challenge", req, 404, "Not found")
            ELSE Ok("get_challenge", req, [challenge |-> to_str_id(hide_flag(found[1]))])

get_challenge(req) ==
    /\ up
    /\ resp' = get_challenge_result(challenge, req)
    /\ UNCHANGED <<db, up, store, workers>>

(* ------------------------------------------------------------------ *)
(* stats                                                               *)
(* ------------------------------------------------------------------ *)
(* sort("score", -1): an order of the documents by descending score;   *)
(* the store leaves the order of equal scores open                     *)
SortedByScoreDesc(coll) ==
    {o \in [1..Len(coll) -> 1..Len(coll)] :
        /\ \A i \in 1..Len(coll) : \A j \in 1..Len(coll) : o[i] = o[j] => i = j
        /\ \A i \in 1..Len(coll) : \A j \in i..Len(coll) :
               coll[o[i]].score >= coll[o[j]].score}

(* the limit not applied *)
limit_ignored(docs, n) == docs

(* limit(n) on a cursor: the first n documents; 0 means no limit *)
limit_cursor(docs, n) == IF n = 0 \/ n >= Len(docs) THEN docs ELSE SubSeq(docs, 1, n)

(* lines 181-183: the entry of one user, found with {"password": 0} *)
leaderboard_entry(u) ==
    to_str_id(without(u, "password") @@ [solves |-> Len(u.solved)])

stats_result(users, o, req) ==
    IF ~db THEN NotConfigured("stats", req)
    ELSE LET sorted == [i \in 1..Len(users) |-> users[o[i]]]
             found == limit_cursor(sorted, req.limit)
         IN Ok("stats", req,
               [leaderboard |-> [i \in 1..Len(found) |-> leaderboard_entry(found[i])]])

stats(req) ==
    /\ up
    /\ \E o \in SortedByScoreDesc(ctfuser) : resp' = stats_result(ctfuser, o, req)
    /\ UNCHANGED <<db, up, store, workers>>

(* ------------------------------------------------------------------ *)
(* submit_flag                                                         *)
(* ------------------------------------------------------------------ *)
(* the test of the solved list left out *)
already_solved_never(req, user) == FALSE

(* line 156 *)
already_solved(req, user) == \E i \in 1..Len(user.solved) : str(user.solved[i]) = str(req.challenge_id)

(* the comparison without strip() *)
is_correct_untrimmed(req, ch) == req.flag = ch.flag

(* the comparison made case-insensitive *)
is_correct_anycase(req, ch) == upper(strip(req.flag)) = upper(ch.flag)

(* line 157 *)
is_correct(req, ch) == strip(req.flag) = ch.flag

(* the user kept as loaded: the re-read result dropped *)
user_not_reread(loaded, reread) == loaded

(* line 168: after the update, user is the record read again *)
user_after_update(loaded, reread) == reread

(* the record without the computed verdict: the schema default stands *)
new_submission_default_verdict(req, correct) ==
    Submission(str(req.user_id), str(req.challenge_id), req.flag, FALSE)

(* the record with the trimmed flag in place of the raw one *)
new_submission_trimmed(req, correct) ==
    Submission(str(req.user_id), str(req.challenge_id), strip(req.flag), correct)

(* line 159: the record written to the audit log *)
new_submission(req, correct) ==
    Submission(str(req.user_id), str(req.challenge_id), req.flag, correct)

submit_result(users, chs, subs, req) ==
    LET same == [users |-> users, subs |-> subs]
    IN
    IF ~db THEN same @@ [resp |-> NotConfigured("submit", req)]
    ELSE IF ~IsValidOid(str(req.user_id)) THEN same @@ [resp |-> Unhandled("submit", req)]
    ELSE LET user == find_one_by_id(users, oid(req.user_id)) IN
    IF ~IsValidOid(str(req.challenge_id)) THEN same @@ [resp |-> Unhandled("submit", req)]
    ELSE LET ch == find_one_by_id(chs, oid(req.challenge_id)) IN
    IF user = <<>> \/ ch = <<>>
    THEN same @@ [resp |-> HTTPException("submit", req, 404, "User or Challenge not found")]
    ELSE LET already == already_solved(req, user[1])
             correct == is_correct(req, ch[1])
             sub == new_submission(req, correct)
             subs2 == create_document(subs, SubmissionTag, sub).coll
         IN IF correct /\ ~already
            THEN LET users2 == update_one_score(users, oid(req.user_id),
                                                ch[1].points, str(req.challenge_id))
                     user2 == find_one_by_id(users2, oid(req.user_id))
                 IN [users |-> users2, subs |-> subs2,
                     resp |-> Ok("submit", req,
                                 [correct |-> correct,
                                  user |-> to_str_id(user_after_update(user, user2)[1])])]
            ELSE [users |-> users, subs |-> subs2,
                  resp |-> Ok("submit", req, [correct |-> correct, user |-> to_str_id(user[1])])]

submit_flag(req) ==
    /\ up
    /\ \A p \in Procs : pc[p] = "idle"
    /\ LET r == submit_result(ctfuser, challenge, submission, req)
       IN /\ Len(r.subs) <= MaxSubs
          /\ ctfuser' = r.users
          /\ submission' = r.subs
          /\ resp' = r.resp
    /\ UNCHANGED <<db, up, challenge, workers>>

(* ------------------------------------------------------------------ *)
(* Requests served concurrently: one action per store operation        *)
(* ------------------------------------------------------------------ *)
(* the requests the two workers draw from *)
ConcRegisterRequest == RegisterRequest
ConcSubmitRequest ==
    [user_id : {UserIdStr(1)}, challenge_id : ChallengeIdInputs, flag : {FlagHello}]
    \cup [user_id : {UserIdStr(1)}, challenge_id : {ChallengeIdStr(1)}, flag : {LowerHello}]
    \cup [user_id : BadUserIds, challenge_id : {ChallengeIdStr(1)}, flag : {FlagHello}]

SubmitPending == {p \in Procs : pc[p] \in {"s_find_user", "s_find_ch", "s_insert"}}
RegisterPending == {p \in Procs : pc[p] \in {"r_find", "r_insert"}}

finish(p, r) ==
    /\ resp' = r
    /\ pc' = [pc EXCEPT ![p] = "idle"]
    /\ rq' = [rq EXCEPT ![p] = NoRequest]
    /\ loc' = [loc EXCEPT ![p] = NoLocals]

goto(p, label, locals) ==
    /\ pc' = [pc EXCEPT ![p] = label]
    /\ loc' = [loc EXCEPT ![p] = locals]
    /\ UNCHANGED <<resp, rq>>

(* line 149-150: the request arrives, db is tested *)
submit_begin(p, req) ==
    /\ up
    /\ pc[p] = "idle"
    /\ Len(submission) + Cardinality(SubmitPending) < MaxSubs
    /\ IF ~db
       THEN /\ resp' = NotConfigured("submit", req)
            /\ UNCHANGED <<pc, rq, loc>>
       ELSE /\ pc' = [pc EXCEPT ![p] = "s_find_user"]
            /\ rq' = [rq EXCEPT ![p] = req]
            /\ UNCHANGED <<resp, loc>>
    /\ UNCHANGED <<db, up, store>>

(* line 151 *)
submit_find_user(p) ==
    /\ pc[p] = "s_find_user"
    /\ IF ~IsValidOid(str(rq[p].user_id))
       THEN finish(p, Unhandled("submit", rq[p]))
       ELSE goto(p, "s_find_ch",
                 [loc[p] EXCEPT !.user = find_one_by_id(ctfuser, oid(rq[p].user_id))])
    /\ UNCHANGED <<db, up, store>>

(* lines 152-157 *)
submit_find_ch(p) ==
    /\ pc[p] = "s_find_ch"
    /\ IF ~IsValidOid(str(rq[p].challenge_id))
       THEN finish(p, Unhandled("submit", rq[p]))
       ELSE LET user == loc[p].user
                ch == find_one_by_id(challenge, oid(rq[p].challenge_id))
            IN IF user = <<>> \/ ch = <<>>
               THEN finish(p, HTTPException("submit", rq[p], 404, "User or Challenge not found"))
               ELSE goto(p, "s_insert",
                         [loc[p] EXCEPT !.ch = ch,
                                        !.already = already_solved(rq[p], user[1]),
                                        !.correct = is_correct(rq[p], ch[1])])
    /\ UNCHANGED <<db, up, store>>

(* lines 159-162, and line 169 when the score is not updated *)
submit_insert(p) ==
    /\ pc[p] = "s_insert"
    /\ LET req == rq[p]
           sub == new_submission(req, loc[p].correct)
       IN submission' = create_document(submission, SubmissionTag, sub).coll
    /\ IF loc[p].correct /\ ~loc[p].already
       THEN goto(p, "s_update", loc[p])
       ELSE finish(p, Ok("submit", rq[p],
                         [correct |-> loc[p].correct, user |-> to_str_id(loc[p].user[1])]))
    /\ UNCHANGED <<db, up, ctfuser, challenge>>

(* lines 164-167 *)
submit_update(p) ==
    /\ pc[p] = "s_update"
    /\ ctfuser' = update_one_score(ctfuser, oid(rq[p].user_id),
                                   loc[p].ch[1].points, str(rq[p].challenge_id))
    /\ goto(p, "s_reread", loc[p])
    /\ UNCHANGED <<db, up, challenge, submission>>

(* lines 168-169 *)
submit_reread(p) ==
    /\ pc[p] = "s_reread"
    /\ LET user == find_one_by_id(ctfuser, oid(rq[p].user_id))
       IN finish(p, Ok("submit", rq[p],
                       [correct |-> loc[p].correct,
                        user |-> to_str_id(user_after_update(loc[p].user, user)[1])]))
    /\ UNCHANGED <<db, up, store>>

(* lines 102-103 *)
register_begin(p, req) ==
    /\ up
    /\ pc[p] = "idle"
    /\ Len(ctfuser) + Cardinality(RegisterPending) < MaxUsers
    /\ IF ~db
       THEN /\ resp' = NotConfigured("register", req)
            /\ UNCHANGED <<pc, rq, loc>>
       ELSE /\ pc' = [pc EXCEPT ![p] = "r_find"]
            /\ rq' = [rq EXCEPT ![p] = req]
            /\ UNCHANGED <<resp, loc>>
    /\ UNCHANGED <<db, up, store>>

(* lines 104-106 *)
register_find(p) ==
    /\ pc[p] = "r_find"
    /\ LET existing == find_one_by_email(ctfuser, rq[p].email)
       IN IF existing # <<>>
          THEN finish(p, HTTPException("register", rq[p], 400, "Email already registered"))
          ELSE goto(p, "r_insert", [loc[p] EXCEPT !.existing = existing])
    /\ UNCHANGED <<db, up, store>>

(* lines 107-108 *)
register_insert(p) ==
    /\ pc[p] = "r_insert"
    /\ LET user == Ctfuser(rq[p].username, rq[p].email, rq[p].password)
           ins == create_document(ctfuser, UserTag, user)
       IN /\ ctfuser' = ins.coll
          /\ goto(p, "r_reread", [loc[p] EXCEPT !.uid = ins.id])
    /\ UNCHANGED <<db, up, challenge, submission>>

(* lines 109-110 *)
register_reread(p) ==
    /\ pc[p] = "r_reread"
    /\ LET doc == find_one_by_id(ctfuser, ObjectId(loc[p].uid))
       IN finish(p, Ok("register", rq[p], [user |-> to_str_id(doc[1])]))
    /\ UNCHANGED <<db, up, store>>

NextConc ==
    \/ seed_challenges
    \/ \E p \in Procs : \E req \in ConcRegisterRequest : register_begin(p, req)
    \/ \E p \in Procs : register_find(p)
    \/ \E p \in Procs : register_insert(p)
    \/ \E p \in Procs : register_reread(p)
    \/ \E p \in Procs : \E req \in ConcSubmitRequest : submit_begin(p, req)
    \/ \E p \in Procs : submit_find_user(p)
    \/ \E p \in Procs : submit_find_ch(p)
    \/ \E p \in Procs : submit_insert(p)
    \/ \E p \in Procs : submit_update(p)
    \/ \E p \in Procs : submit_reread(p)

SpecConc == Init /\ [][NextConc]_vars

(* ------------------------------------------------------------------ *)
(* Concurrent registrations followed by logins                         *)
(* ------------------------------------------------------------------ *)
(* one email, registered under either password *)
RaceRegisterRequest ==
    RegisterRequest \cup [username : Usernames, email : {"a@ctf.io"}, password : LoginPasswords]

NextLogin ==
    \/ seed_challenges
    \/ \E p \in Procs : \E req \in RaceRegisterRequest : register_begin(p, req)
    \/ \E p \in Procs : register_find(p)
    \/ \E p \in Procs : register_insert(p)
    \/ \E p \in Procs : register_reread(p)
    \/ \E req \in LoginRequest : login(req)

SpecLogin == Init /\ [][NextLogin]_vars

(* ------------------------------------------------------------------ *)
(* Requests served one at a time                                       *)
(* ------------------------------------------------------------------ *)
Next ==
    \/ seed_challenges
    \/ \E req \in RegisterRequest : register(req)
    \/ \E req \in SubmitFlagRequest : submit_flag(req)

Spec == Init /\ [][Next]_vars

(* ------------------------------------------------------------------ *)
(* Every endpoint, requests served one at a time                       *)
(* ------------------------------------------------------------------ *)
(* two users submit, so that the ranking can differ from insertion order *)
ApiSubmitRequest ==
    [user_id : {UserIdStr(1)}, challenge_id : ChallengeIdInputs, flag : {FlagHello}]
    \cup [user_id : {UserIdStr(1)}, challenge_id : {ChallengeIdStr(1)}, flag : {LowerHello}]
    \cup [user_id : {UserIdStr(2)}, challenge_id : {ChallengeIdStr(2)}, flag : {FlagCaesar}]

NextApi ==
    \/ seed_challenges
    \/ \E req \in RegisterRequest : register(req)
    \/ \E req \in LoginRequest : login(req)
    \/ list_challenges
    \/ \E req \in GetChallengeRequest : get_challenge(req)
    \/ \E req \in ApiSubmitRequest : submit_flag(req)
    \/ \E req \in StatsRequest : stats(req)

SpecApi == Init /\ [][NextApi]_vars

(* ------------------------------------------------------------------ *)
(* Every endpoint, register and submit interleaved at their store      *)
(* operations; the other handlers are one store operation each          *)
(* ------------------------------------------------------------------ *)
AllSubmitRequest ==
    [user_id : {UserIdStr(1)}, challenge_id : {ChallengeIdStr(1)}, flag : {FlagHello, LowerHello}]
AllLoginRequest == [email : {"a@ctf.io"}, password : Passwords]
AllGetChallengeRequest == [challenge_id : {ChallengeIdStr(1)}]
AllStatsRequest == [limit : {1}]

NextAll ==
    \/ seed_challenges
    \/ \E p \in Procs : \E req \in RegisterRequest : register_begin(p, req)
    \/ \E p \in Procs : register_find(p)
    \/ \E p \in Procs : register_insert(p)
    \/ \E p \in Procs : register_reread(p)
    \/ \E p \in Procs : \E req \in AllSubmitRequest : submit_begin(p, req)
    \/ \E p \in Procs : submit_find_user(p)
    \/ \E p \in Procs : submit_find_ch(p)
    \/ \E p \in Procs : submit_insert(p)
    \/ \E p \in Procs : submit_update(p)
    \/ \E p \in Procs : submit_reread(p)
    \/ \E req \in AllLoginRequest : login(req)
    \/ list_challenges
    \/ \E req \in AllGetChallengeRequest : get_challenge(req)
    \/ \E req \in AllStatsRequest : stats(req)

SpecAll == Init /\ [][NextAll]_vars

(* ------------------------------------------------------------------ *)
(* Submits interleaved at their store operations, the user id given in  *)
(* either spelling, by either of two users                               *)
(* ------------------------------------------------------------------ *)
AuditSubmitRequest ==
    [user_id : UserIdInputs, challenge_id : {ChallengeIdStr(1)}, flag : {FlagHello}]
    \cup [user_id : {UserIdStr(1), UserIdStr(2)}, challenge_id : {ChallengeIdStr(1)}, flag : {LowerHello}]

NextAudit ==
    \/ seed_challenges
    \/ \E req \in RegisterRequest : register(req)
    \/ \E p \in Procs : \E req \in AuditSubmitRequest : submit_begin(p, req)
    \/ \E p \in Procs : submit_find_user(p)
    \/ \E p \in Procs : submit_find_ch(p)
    \/ \E p \in Procs : submit_insert(p)
    \/ \E p \in Procs : submit_update(p)
    \/ \E p \in Procs : submit_reread(p)

SpecAudit == Init /\ [][NextAudit]_vars

(* ------------------------------------------------------------------ *)
(* Vocabulary of the properties.  Every response carries its request,  *)
(* so a step of submit_flag or register is the step whose new response  *)
(* names it: req below is the request of the step under consideration.  *)
(* ------------------------------------------------------------------ *)
Range(f) == {f[i] : i \in 1..Len(f)}

(* the id text s names a document of coll *)
Resolves(coll, s) == IsValidOid(s) /\ find_one_by_id(coll, ObjectId(s)) # <<>>

RECURSIVE SumPoints(_)
SumPoints(S) ==
    IF S = {} THEN 0
    ELSE LET c == CHOOSE c \in S : TRUE IN c.points + SumPoints(S \ {c})

(* the challenge records whose id is in the solved list of user u *)
SolvedChallenges(u) ==
    {c \in Range(challenge) : \E i \in 1..Len(u.solved) :
        IsValidOid(u.solved[i]) /\ ObjectId(u.solved[i]) = c._id}

(* how often the text s occurs in the list arr *)
Occurrences(arr, s) == Cardinality({i \in 1..Len(arr) : arr[i] = s})

(* the submit request req passes the existence check in the current state *)
PassesCheck(req) ==
    /\ db
    /\ Resolves(ctfuser, req.user_id)
    /\ Resolves(challenge, req.challenge_id)

TheUser(req) == find_one_by_id(ctfuser, ObjectId(req.user_id))[1]
TheChallenge(req) == find_one_by_id(challenge, ObjectId(req.challenge_id))[1]
TheUserAfter(req) == find_one_by_id(ctfuser', ObjectId(req.user_id))[1]

(* the flag of req, surrounding whitespace apart, is the stored flag *)
IsPaddingOf(s, f) ==
    \E i \in 0..Len(s) : \E j \in i..Len(s) :
        /\ SubSeq(s, i + 1, j) = f
        /\ \A k \in 1..i : s[k] \in Whitespace
        /\ \A k \in (j + 1)..Len(s) : s[k] \in Whitespace

(* ------------------------------------------------------------------ *)
(* C1: with requests served one at a time, every user's score is the   *)
(* sum of the points of the distinct challenges named by its solved     *)
(* list.  The code breaks this when one challenge is submitted under    *)
(* two spellings of its id.                                             *)
(* ------------------------------------------------------------------ *)
C1_ScoreIsSumOfSolved ==
    \A i \in 1..Len(ctfuser) :
        ctfuser[i].score = SumPoints(SolvedChallenges(ctfuser[i]))

(* ------------------------------------------------------------------ *)
(* C2: with requests served one at a time, a correct submit for a      *)
(* challenge the user was already awarded, under whatever spelling of   *)
(* its id, leaves score and solved unchanged and still appends a        *)
(* Submission with correct = TRUE.  The code pays out again when the    *)
(* spelling differs from the stored one.                                *)
(* ------------------------------------------------------------------ *)
C2_PaysOutOncePerChallenge ==
    [][LET req == resp'.req IN
          (/\ resp'.op = "submit"
           /\ submit_flag(req)
           /\ PassesCheck(req)
           /\ strip(req.flag) = TheChallenge(req).flag
           /\ TheChallenge(req) \in SolvedChallenges(TheUser(req)))
          => /\ TheUserAfter(req).score = TheUser(req).score
             /\ TheUserAfter(req).solved = TheUser(req).solved
             /\ Len(submission') = Len(submission) + 1
             /\ submission'[Len(submission')].correct = TRUE]_vars

(* ------------------------------------------------------------------ *)
(* C3: a correct submit for a challenge id that is not in the user's   *)
(* solved list adds exactly the challenge's points to that user's       *)
(* score, adds the id to solved, and leaves every other user as it was. *)
(* ------------------------------------------------------------------ *)
C3_FirstCorrectSubmitAwards ==
    [][LET req == resp'.req IN
          (/\ resp'.op = "submit"
           /\ submit_flag(req)
           /\ PassesCheck(req)
           /\ strip(req.flag) = TheChallenge(req).flag
           /\ Occurrences(TheUser(req).solved, req.challenge_id) = 0)
          => /\ TheUserAfter(req).score = TheUser(req).score + TheChallenge(req).points
             /\ TheUserAfter(req).solved = Append(TheUser(req).solved, req.challenge_id)
             /\ Len(ctfuser') = Len(ctfuser)
             /\ \A i \in 1..Len(ctfuser) :
                   ctfuser[i]._id # ObjectId(req.user_id) => ctfuser'[i] = ctfuser[i]]_vars

(* a second user exists and the first has just been awarded the warm-up *)
C3_Witness ==
    /\ Len(ctfuser) = 2
    /\ resp.op = "submit" /\ resp.status = 200 /\ resp.body.correct
    /\ ctfuser[1].score = 50
    /\ ctfuser[1].solved = <<ChallengeIdStr(1)>>
    /\ ctfuser[2].score = 0

(* ------------------------------------------------------------------ *)
(* C4: two interleaved correct first-time submits of one (user,        *)
(* challenge id) pair can both read already = FALSE and both apply the  *)
(* increment.  Whenever both workers have applied their update for the  *)
(* same pair, both had read already = FALSE, the id is in solved once,  *)
(* and the score holds the points at least twice: exactly twice when    *)
(* this id is all the user has solved.                                  *)
(* ------------------------------------------------------------------ *)
BothApplied(p, q) ==
    /\ p # q
    /\ pc[p] = "s_reread" /\ pc[q] = "s_reread"
    /\ ObjectId(rq[p].user_id) = ObjectId(rq[q].user_id)
    /\ rq[p].challenge_id = rq[q].challenge_id

C4_RaceDoublesScore ==
    \A p \in Procs : \A q \in Procs :
        BothApplied(p, q) =>
            LET u == TheUser(rq[p])
                c == loc[p].ch[1]
            IN /\ ~loc[p].already /\ ~loc[q].already
               /\ loc[p].correct /\ loc[q].correct
               /\ Occurrences(u.solved, rq[p].challenge_id) = 1
               /\ u.score >= 2 * c.points
               /\ (Len(u.solved) = 1 => u.score = 2 * c.points)

C4_Witness ==
    /\ BothApplied("w1", "w2")
    /\ ctfuser[1].score = 2 * demos[1].points
    /\ ctfuser[1].solved = <<ChallengeIdStr(1)>>

C6_WrongFlagChangesNoUser ==
    [][LET req == resp'.req IN
          (/\ resp'.op = "submit"
           /\ submit_flag(req)
           /\ PassesCheck(req)
           /\ strip(req.flag) # TheChallenge(req).flag)
          => /\ ctfuser' = ctfuser
             /\ Len(submission') = Len(submission) + 1
             /\ SubSeq(submission', 1, Len(submission)) = submission
             /\ submission'[Len(submission')].correct = FALSE]_vars

(* a user who holds points has just submitted a wrong flag *)
C6_Witness ==
    /\ resp.op = "submit" /\ resp.status = 200 /\ ~resp.body.correct
    /\ Len(submission) = 2 /\ ~submission[2].correct
    /\ ctfuser[1].score = demos[1].points

(* ------------------------------------------------------------------ *)
(* C7: a submit whose user_id or challenge_id does not resolve to an   *)
(* existing record fails with 404 and leaves the three collections      *)
(* unchanged.  The code answers 500 when an id is not a well-formed     *)
(* object id, because ObjectId() raises before the check.               *)
(* ------------------------------------------------------------------ *)
C7_BadIdIsNotFound ==
    [][LET req == resp'.req IN
          (/\ resp'.op = "submit"
           /\ submit_flag(req)
           /\ db
           /\ ~(Resolves(ctfuser, req.user_id) /\ Resolves(challenge, req.challenge_id)))
          => /\ resp'.status = 404
             /\ UNCHANGED store]_vars

(* ------------------------------------------------------------------ *)
(* C8: the submission collection is an append-only log: no step        *)
(* changes or removes a record, and every submit that passes the        *)
(* existence check appends exactly one record with the raw flag and the *)
(* computed correct value.                                              *)
(* ------------------------------------------------------------------ *)
C8_AppendOnlyLog ==
    [][/\ Len(submission') >= Len(submission)
       /\ SubSeq(submission', 1, Len(submission)) = submission
       /\ LET req == resp'.req IN
             (/\ resp'.op = "submit"
              /\ submit_flag(req)
              /\ PassesCheck(req))
             => /\ Len(submission') = Len(submission) + 1
                /\ LET rec == submission'[Len(submission')]
                   IN /\ rec.user_id = req.user_id
                      /\ rec.challenge_id = req.challenge_id
                      /\ rec.flag = req.flag
                      /\ rec.correct = (strip(req.flag) = TheChallenge(req).flag)]_vars

(* the log keeps the padded flag of a correct attempt and a later wrong one *)
C8_Witness ==
    /\ Len(submission) = 2
    /\ submission[1].flag = PaddedHello /\ submission[1].correct
    /\ ~submission[2].correct

(* ------------------------------------------------------------------ *)
(* C9: submit answers correct = TRUE exactly when the submitted flag is *)
(* the stored flag with nothing but whitespace around it; a change of   *)
(* letter case or whitespace inside the flag makes it FALSE.            *)
(* ------------------------------------------------------------------ *)
C9_CorrectIffTrimmedEqual ==
    (resp.op = "submit" /\ resp.status = 200) =>
        /\ resp.body.correct = IsPaddingOf(resp.req.flag, TheChallenge(resp.req).flag)
        /\ (resp.req.flag \in {LowerHello, SplitHello} => ~resp.body.correct)

C9_Witness ==
    /\ resp.op = "submit" /\ resp.status = 200
    /\ resp.req.flag = PaddedHello
    /\ resp.body.correct

(* ------------------------------------------------------------------ *)
(* C10: with requests served one at a time, register with an unused    *)
(* email creates exactly one user with score 0 and empty solved and     *)
(* returns it; with an email some user already has (exact match) it     *)
(* fails with 400 and leaves the users unchanged.                       *)
(* ------------------------------------------------------------------ *)
C10_RegisterCreatesOrConflicts ==
    [][LET req == resp'.req IN
          (/\ resp'.op = "register"
           /\ register(req)
           /\ db)
          => IF \E i \in 1..Len(ctfuser) : ctfuser[i].email = req.email
             THEN /\ resp'.status = 400
                  /\ ctfuser' = ctfuser
             ELSE /\ Len(ctfuser') = Len(ctfuser) + 1
                  /\ SubSeq(ctfuser', 1, Len(ctfuser)) = ctfuser
                  /\ LET doc == ctfuser'[Len(ctfuser')]
                     IN /\ doc.username = req.username
                        /\ doc.email = req.email
                        /\ doc.password = req.password
                        /\ doc.score = 0
                        /\ doc.solved = <<>>
                        /\ \A i \in 1..Len(ctfuser) : ctfuser[i]._id # doc._id
                        /\ resp'.status = 200
                        /\ resp'.body.user = to_str_id(doc)]_vars

(* two users whose emails differ in case only, then a refused duplicate *)
C10_Witness ==
    /\ Len(ctfuser) = 2
    /\ resp.op = "register" /\ resp.status = 400

(* ------------------------------------------------------------------ *)
(* C11: login returns the stored user exactly when some user has the   *)
(* given email and the supplied password, answers 401 otherwise, and    *)
(* changes no stored state.  The code looks at the first user with the  *)
(* email only, and register (C17) lets two users share an email.        *)
(* ------------------------------------------------------------------ *)
C11_LoginIffCredentialsMatch ==
    [][LET req == resp'.req IN
          (/\ resp'.op = "login"
           /\ login(req)
           /\ db)
          => /\ UNCHANGED store
             /\ IF \E i \in 1..Len(ctfuser) :
                       ctfuser[i].email = req.email /\ ctfuser[i].password = req.password
                THEN /\ resp'.status = 200
                     /\ \E i \in 1..Len(ctfuser) :
                           /\ ctfuser[i].email = req.email
                           /\ ctfuser[i].password = req.password
                           /\ resp'.body.user = to_str_id(ctfuser[i])
                ELSE resp'.status = 401]_vars

(* ------------------------------------------------------------------ *)
(* C17: in every reachable state, also under interleaved register      *)
(* requests, no two user records have the same email.  The code tests   *)
(* and inserts in two store operations, so two requests can both pass.  *)
(* ------------------------------------------------------------------ *)
C17_EmailsUnique ==
    \A i \in 1..Len(ctfuser) : \A j \in 1..Len(ctfuser) :
        ctfuser[i].email = ctfuser[j].email => i = j

(* ------------------------------------------------------------------ *)
(* C12: no response of list_challenges or get_challenge has a flag     *)
(* field, and both answer the same whatever the flags of the stored     *)
(* challenges are.                                                      *)
(* ------------------------------------------------------------------ *)
(* the challenges with other flags: each given a flag of OtherFlags, in every way *)
OtherFlags == {FlagCookie, LowerHello}
Reflagged(chs) ==
    {[i \in 1..Len(chs) |-> [chs[i] EXCEPT !.flag = f[i]]] :
        f \in [1..Len(chs) -> OtherFlags]}

C12_FlagNeverDisclosed ==
    /\ (resp.op = "list_challenges" /\ resp.status = 200) =>
           \A i \in 1..Len(resp.body.challenges) :
               "flag" \notin DOMAIN resp.body.challenges[i]
    /\ (resp.op = "get_challenge" /\ resp.status = 200) =>
           "flag" \notin DOMAIN resp.body.challenge
    /\ \A other \in Reflagged(challenge) :
           /\ list_challenges_result(other) = list_challenges_result(challenge)
           /\ \A req \in GetChallengeRequest :
                  get_challenge_result(other, req) = get_challenge_result(challenge, req)

(* a seeded challenge, asked for under the upper-case spelling of its id *)
C12_Witness ==
    /\ resp.op = "get_challenge" /\ resp.status = 200
    /\ resp.req.challenge_id = UpperHex(ChallengeIdStr(1))
    /\ resp.body.challenge.title = demos[1].title

(* ------------------------------------------------------------------ *)
(* C13: for a positive limit, stats returns at most limit entries, by  *)
(* descending score, holding the users with the highest scores; every   *)
(* entry has solves = the length of that user's solved list and no      *)
(* password; stats changes no stored state.                             *)
(* ------------------------------------------------------------------ *)
C13_StatsRanksTopUsers ==
    [][LET req == resp'.req IN
          (/\ resp'.op = "stats"
           /\ stats(req)
           /\ db
           /\ req.limit > 0)
          => LET lb == resp'.body.leaderboard
                 listed == {lb[i]._id : i \in 1..Len(lb)}
             IN /\ UNCHANGED store
                /\ Len(lb) <= req.limit
                /\ Len(lb) < req.limit => Len(lb) = Len(ctfuser)
                /\ \A i \in 1..Len(lb) : \A j \in i..Len(lb) : lb[i].score >= lb[j].score
                /\ \A i \in 1..Len(lb) : \A j \in 1..Len(lb) : lb[i]._id = lb[j]._id => i = j
                /\ \A i \in 1..Len(lb) :
                      /\ "password" \notin DOMAIN lb[i]
                      /\ \E k \in 1..Len(ctfuser) :
                            /\ lb[i]._id = StrOid(ctfuser[k]._id)
                            /\ lb[i].score = ctfuser[k].score
                            /\ lb[i].solved = ctfuser[k].solved
                            /\ lb[i].solves = Len(ctfuser[k].solved)
                /\ \A k \in 1..Len(ctfuser) :
                      StrOid(ctfuser[k]._id) \notin listed =>
                          \A i \in 1..Len(lb) : lb[i].score >= ctfuser[k].score]_vars

(* limit 1 of two users: the second registered leads and is the one listed *)
C13_Witness ==
    /\ resp.op = "stats" /\ resp.status = 200 /\ resp.req.limit = 1
    /\ Len(ctfuser) = 2
    /\ ctfuser[2].score > ctfuser[1].score /\ ctfuser[1].score > 0
    /\ Len(resp.body.leaderboard) = 1
    /\ resp.body.leaderboard[1]._id = UserIdStr(2)
    /\ resp.body.leaderboard[1].solves = 1

(* ------------------------------------------------------------------ *)
(* C14: startup on an empty challenge collection leaves exactly the 3  *)
(* demo challenges in it; no later step, a further startup included,    *)
(* adds another.                                                        *)
(* ------------------------------------------------------------------ *)
C14_SeedingIdempotent ==
    [][/\ (seed_challenges /\ db /\ Len(challenge) = 0) =>
              /\ Len(challenge') = 3
              /\ \A i \in 1..3 : without(challenge'[i], "_id") = demos[i]
              /\ \A i \in 1..3 : \A j \in 1..3 :
                     challenge'[i]._id = challenge'[j]._id => i = j
       /\ Len(challenge) = 3 => challenge' = challenge
       /\ Len(challenge') \in {0, 3}]_vars

(* seeded, and two submits later still the three challenges *)
C14_Witness ==
    /\ up /\ db
    /\ Len(challenge) = 3
    /\ Len(submission) = 2

(* ------------------------------------------------------------------ *)
(* C15: a step changes an existing user record only if it is the score *)
(* update of a submit that is correct and whose challenge id is not in  *)
(* solved, and then only score and solved change; no step removes a     *)
(* user; once seeded, no step changes a challenge.  As claimed, "not in *)
(* solved" is judged on the stored record when the update runs: the     *)
(* race of C4 breaks that.  As amended, it is judged on the record the  *)
(* request loaded.                                                      *)
(* ------------------------------------------------------------------ *)
(* the solved list in which worker p's challenge id is looked for *)
SolvedSeenBy(k, p, loaded) == IF loaded THEN loc[p].user[1].solved ELSE ctfuser[k].solved

C15_StepFrame(loaded) ==
    /\ Len(ctfuser') >= Len(ctfuser)
    /\ \A k \in 1..Len(ctfuser) :
          ctfuser'[k] # ctfuser[k] =>
              \E p \in Procs :
                  /\ pc[p] = "s_update" /\ pc'[p] = "s_reread"
                  /\ ObjectId(rq[p].user_id) = ctfuser[k]._id
                  /\ strip(rq[p].flag) = loc[p].ch[1].flag
                  /\ Occurrences(SolvedSeenBy(k, p, loaded), rq[p].challenge_id) = 0
                  /\ [ctfuser'[k] EXCEPT !.score = ctfuser[k].score,
                                         !.solved = ctfuser[k].solved] = ctfuser[k]
    /\ Len(challenge) > 0 => challenge' = challenge

C16_ReturnedUserIsCurrent ==
    [][LET req == resp'.req IN
          (/\ resp'.op = "submit"
           /\ submit_flag(req)
           /\ PassesCheck(req))
          => LET updated == /\ strip(req.flag) = TheChallenge(req).flag
                            /\ Occurrences(TheUser(req).solved, req.challenge_id) = 0
             IN /\ resp'.status = 200
                /\ ~updated => resp'.body.user = to_str_id(TheUser(req))
                /\ updated => resp'.body.user = to_str_id(TheUserAfter(req))
                /\ resp'.body.user.score = TheUserAfter(req).score
                /\ resp'.body.user.solved = TheUserAfter(req).solved]_vars

(* the second award: the returned user shows both *)
C16_Witness ==
    /\ resp.op = "submit" /\ resp.status = 200 /\ resp.body.correct
    /\ Len(resp.body.user.solved) = 2
    /\ resp.body.user.score = ctfuser[1].score
    /\ resp.body.user.score > demos[1].points

(* ------------------------------------------------------------------ *)
(* C18: in every reachable state, under every interleaving of submits,  *)
(* each id in a user's solved list has a record in the submissions log   *)
(* naming that user and that challenge id with correct = TRUE, and a     *)
(* user all of whose logged submissions are incorrect has score 0 and    *)
(* an empty solved list.  The log keeps user_id as the request gave it,  *)
(* so a record names the user whose _id its user_id parses to.           *)
(* ------------------------------------------------------------------ *)
SubmissionsOf(user) ==
    {i \in 1..Len(submission) :
        /\ IsValidOid(submission[i].user_id)
        /\ ObjectId(submission[i].user_id) = user._id}

C18_SolvedBackedByLog ==
    \A k \in 1..Len(ctfuser) :
        LET user == ctfuser[k] IN
        /\ \A j \in 1..Len(user.solved) :
              \E i \in SubmissionsOf(user) :
                  /\ submission[i].challenge_id = user.solved[j]
                  /\ submission[i].correct
        /\ (\A i \in SubmissionsOf(user) : ~submission[i].correct)
              => user.score = 0 /\ user.solved = <<>>

(* one user solved under the upper-case spelling of the id while the   *)
(* other has only a wrong attempt in the log                            *)
C18_Witness ==
    /\ Len(ctfuser) = 2
    /\ ctfuser[1].solved = <<ChallengeIdStr(1)>>
    /\ \E i \in SubmissionsOf(ctfuser[1]) :
          submission[i].correct /\ submission[i].user_id = UpperHex(UserIdStr(1))
    /\ SubmissionsOf(ctfuser[2]) # {}
    /\ ctfuser[2].score = 0

====
